---- MODULE Spec2Model ----
(***************************************************************************)
(* Order lifecycle and payment reconciliation of the DiyCrafts bot:        *)
(* the Telegram handlers of bot.py and the CLICK webhooks of               *)
(* payment_api.py, both working on the one `orders` table.                 *)
(*                                                                         *)
(* The chat handlers run on one event loop and none awaits between two of *)
(* its SQL statements, so a handler's work on the table is one step; the   *)
(* FSM updates it makes after a later await are taken in the same step.    *)
(* The webhooks run in Flask request threads on an autocommit connection:  *)
(* every SQL statement and every outbound HTTP call of a webhook is a step *)
(* of its own, and steps of two requests (and of chat handlers)            *)
(* interleave.  A request is served by the lowest free thread: which       *)
(* thread serves it makes no difference.                                   *)
(*                                                                         *)
(* Texts (form fields, chat messages) are sequences of one-character       *)
(* strings, so that parsing, formatting and concatenation are computed.    *)
(* SQL NULL is 0 for ids and quantities, -1 for admin_price, "NULL" for    *)
(* texts.  Status texts are the code's, transliterated:                    *)
(*   "AwaitingApproval"  = 'Ожидание одобрения'                            *)
(*   "AwaitingPrice"     = 'Ожидание суммы'                                *)
(*   "AwaitingPayment"   = 'Ожидание оплаты'                               *)
(*   "CancelledByClient" = 'Отменён клиентом'                              *)
(*   "RejectedByAdmin"   = 'Отклонено'                                     *)
(*   "pending", "processing", "completed" as written.                      *)
(***************************************************************************)
EXTENDS Integers, Sequences, FiniteSets, TLC

\* ------------------------------------------------------------------ bounds
MaxOrders == 1      \* Spec: orders placed through the chat
MaxUuid == 1        \* Spec: uuid4 values drawn by client_accept_order
MaxBare == 2        \* rows inserted by prepare
MaxChatOrders == 2  \* ChatSpec: orders placed through the chat
MaxChatUuid == 2    \* ChatSpec: uuid4 values drawn by client_accept_order
MaxPrepares == 2    \* prepare requests that pass the field checks
MaxCompletes == 2   \* complete requests that pass the field checks
MaxTime == 1        \* minutes the clock may advance

\* ------------------------------------------------------- program constants
Users == {1, 2}
ADMIN_CHAT_IDS == {1}
GROUP_CHAT_ID == 0                \* the chat the admins share with others
Clients == {2}                    \* the users who place orders
Workers == {1, 2}                 \* Flask request threads
ForeignTid == MaxChatUuid + 1    \* a merchant_trans_id no uuid4 call returned
Products == {"Mug"}               \* get_product_keyboard offers catalog names only
products_data == {"Mug"}          \* the catalog's keys
Quantities == {1, 2}
Digit == {"0", "1", "2", "3", "4", "5", "6", "7", "8", "9"}
SECRET_KEY == <<"K">>
WrongKey == <<"X">>
ClickTransId == <<"7">>
ServiceId == <<"3">>
SignTime == <<"T">>

\* ---------------------------------------------------------------- texts
DigitVal(c) ==
    CASE c = "0" -> 0 [] c = "1" -> 1 [] c = "2" -> 2 [] c = "3" -> 3
      [] c = "4" -> 4 [] c = "5" -> 5 [] c = "6" -> 6 [] c = "7" -> 7
      [] c = "8" -> 8 [] OTHER -> 9

DigitChar(n) ==
    CASE n = 0 -> "0" [] n = 1 -> "1" [] n = 2 -> "2" [] n = 3 -> "3"
      [] n = 4 -> "4" [] n = 5 -> "5" [] n = 6 -> "6" [] n = 7 -> "7"
      [] n = 8 -> "8" [] OTHER -> "9"

\* str.isdigit(): non-empty and every character a decimal digit
isdigit(s) == Len(s) > 0 /\ \A i \in 1..Len(s) : s[i] \in Digit

RECURSIVE IntOf(_)
\* int()/float() of a digit string
IntOf(s) ==
    IF Len(s) = 0 THEN 0
    ELSE 10 * IntOf(SubSeq(s, 1, Len(s) - 1)) + DigitVal(s[Len(s)])

RECURSIVE StrOfInt(_)
\* str() of a non-negative int
StrOfInt(n) ==
    IF n < 10 THEN <<DigitChar(n)>>
    ELSE StrOfInt(n \div 10) \o <<DigitChar(n % 10)>>

DotAt(s) == {i \in 1..Len(s) : s[i] = "."}

\* float(text) for the texts of the model: digits, or digits "." zeros.
\* -1 stands for the ValueError float() raises on any other text.
ParseFloat(s) ==
    IF isdigit(s) THEN IntOf(s)
    ELSE IF Cardinality(DotAt(s)) = 1
         THEN LET d == CHOOSE i \in DotAt(s) : TRUE
                  ip == SubSeq(s, 1, d - 1)
                  fp == SubSeq(s, d + 1, Len(s))
              IN IF isdigit(ip) /\ isdigit(fp) /\ \A i \in 1..Len(fp) : fp[i] = "0"
                 THEN IntOf(ip) ELSE -1
         ELSE -1

\* str(x) of a float x holding a whole number: Python prints it with ".0"
FormatFloat(n) == StrOfInt(n) \o <<".", "0">>

\* hashlib.md5(...).hexdigest(), taken as collision free: the digest names its input
md5_hash(s) == <<"md5">> \o s

\* str(uuid.uuid4()) of the n-th draw, and the text of any merchant_trans_id
TidText(t) == <<"u">> \o StrOfInt(t)

\* ---------------------------------------------------------------- state
VARIABLES
    orders,          \* the orders table: a set of rows, order_id the primary key
    clients,         \* the clients table: the user_id of every row
    nextOrderId,     \* the SERIAL sequence of orders.order_id
    nextUuid,        \* how many uuid4 values were drawn, plus one
    now,             \* the wall clock in minutes (datetime.now() to '%Y-%m-%d %H:%M')
    fsm,             \* aiogram FSM storage: per chat and user the state and its data
    lastApproved,    \* observer: per user the order of the approve press that user
                     \* made last as an admin (0: none)
    approveButtons,  \* order ids on approve_/reject_ keyboards sent to the admins
    acceptButtons,   \* order ids on client_accept_order_/client_cancel_order_ keyboards
                     \* (every price message sends one; a press made before the
                     \* keyboard is edited away is delivered all the same)
    dbButtons,       \* the db_... buttons sent, each with the chat it was sent to
    pc,              \* per Flask thread: where its request stands
    req,             \* per Flask thread: the request's fields
    answer,          \* what the step just taken sent back, if anything: the JSON
                     \* answer of a webhook, or the "no rights" alert of a callback
    calls,           \* requests that passed the field checks, per endpoint; matched:
                     \* per merchant_trans_id, the complete requests among them
                     \* that carried the merchant_prepare_id prepare answered last
    fiscalCount,     \* per merchant_trans_id: POSTs made to ofd_data/submit_items
    invoiced,        \* per merchant_trans_id: the amount of the invoice created for it
                     \* through create_invoice (0: none)
    notifications,   \* per merchant_trans_id: payment notices sent through notify_admins
                     \* (payment_api.py defines it; no handler calls it)
    prepIssued,      \* per merchant_trans_id: the merchant_prepare_id answered last (0: none)
    path             \* observer: progress along the section 8 payment scenario

storeVars == <<orders, nextOrderId, nextUuid, now>>
chatVars == <<fsm, lastApproved, approveButtons, acceptButtons>>
adminVars == <<clients, dbButtons>>
otherVars == <<clients, dbButtons, invoiced>>
hookVars == <<pc, req, calls, fiscalCount, notifications, prepIssued>>
vars == <<orders, clients, nextOrderId, nextUuid, now, fsm, lastApproved, approveButtons,
          acceptButtons,
          dbButtons, invoiced,
          pc, req, answer, calls, fiscalCount, notifications, prepIssued, path>>

Tids == 1..ForeignTid
NoState == [state |-> "none", order_id |-> 0]
\* The chats: every user's private chat, whose id is the user's, and the group.
\* A user writes and presses in the private chat and in the group.
Chats == Users \cup {GROUP_CHAT_ID}
Sees(u, chat) == chat = u \/ chat = GROUP_CHAT_ID
\* the chats the approve_/reject_ keyboards are sent to
AdminChats == ADMIN_CHAT_IDS \cup {GROUP_CHAT_ID}
\* Dispatcher(storage=storage): the FSM context of an update is that of its
\* chat and user
FsmKeys == {k \in Chats \X Users : Sees(k[2], k[1])}
\* Python's round() of the quotient num / den of two naturals: the nearest
\* integer, of two equally near ones the even one
round(num, den) ==
    LET q == num \div den
        r == num % den
    IN IF 2 * r < den THEN q
       ELSE IF 2 * r > den THEN q + 1
       ELSE IF q % 2 = 0 THEN q ELSE q + 1

\* create_fiscal_item with the 12% put on top of the price
create_fiscal_item_vat_on_top(product_name, quantity, unit_price) ==
    [Name |-> product_name, GoodPrice |-> unit_price, Price |-> unit_price * quantity,
     Amount |-> quantity, VAT |-> round((unit_price * quantity) * 12, 100),
     VATPercent |-> 12]

\* fiscal.create_fiscal_item for a product of the catalog.  vat is
\* round((price_total / 1.12) * 0.12), computed in doubles: that is the integer
\* nearest to price_total * 12 / 112 whenever there is only one (for price_total
\* below 10^14), and there is only one unless price_total mod 28 = 14, which
\* no multiple of 100 is; complete() passes unit prices that are multiples of 100.
create_fiscal_item(product_name, quantity, unit_price) ==
    [Name |-> product_name, GoodPrice |-> unit_price, Price |-> unit_price * quantity,
     Amount |-> quantity, VAT |-> round((unit_price * quantity) * 12, 112),
     VATPercent |-> 12]

NoItem == [Name |-> "NULL", GoodPrice |-> 0, Price |-> 0, Amount |-> 0, VAT |-> 0,
           VATPercent |-> 12]
NoReq == [kind |-> "none", tid |-> 0, prep |-> 0, amount |-> 0, fiscal_item |-> NoItem,
          fiscal_result |-> "none"]
NoAnswer == [kind |-> "none", tid |-> 0, error |-> 1, merchant_prepare_id |-> 0,
             fiscal_items |-> NoItem, fiscal_response |-> "none"]

\* a table whose is_paid column defaults to 1
NewRowPaid(id, user, product, quantity, status, tid) ==
    [order_id |-> id, user_id |-> user, product |-> product, quantity |-> quantity,
     status |-> status, merchant_trans_id |-> tid,
     order_time |-> now, admin_price |-> -1, payment_url |-> "NULL", is_paid |-> 1]

\* CREATE TABLE orders: the columns that decide what the handlers do (the texts
\* of the design, the location and cost_info are only stored)
NewRow(id, user, product, quantity, status, tid) ==
    [order_id |-> id, user_id |-> user, product |-> product, quantity |-> quantity,
     status |-> status, merchant_trans_id |-> tid,
     order_time |-> now, admin_price |-> -1, payment_url |-> "NULL", is_paid |-> 0]

\* UPDATE orders SET ... WHERE ...: Set(r) replaces every row r that Where(r) selects
SqlUpdate(rows, Where(_), Set(_)) == {IF Where(r) THEN Set(r) ELSE r : r \in rows}

\* the rows the chat inserted; prepare's rows have no user_id
Placed == {r \in orders : r.user_id # 0}
OrderIds == 1..(MaxChatOrders + MaxBare)

ByOrderId(rows, id) == {r \in rows : r.order_id = id}
ByTransId(rows, tid) == {r \in rows : r.merchant_trans_id = tid}

\* callback_query.answer("У вас нет прав.", show_alert=True)
NoRights == [NoAnswer EXCEPT !.kind = "no_rights"]

Init ==
    /\ orders = {}
    /\ clients = {}
    /\ nextOrderId = 1
    /\ nextUuid = 1
    /\ now = 0
    /\ fsm = [k \in FsmKeys |-> NoState]
    /\ lastApproved = [u \in Users |-> 0]
    /\ approveButtons = {}
    /\ acceptButtons = {}
    /\ dbButtons = {}
    /\ pc = [w \in Workers |-> "idle"]
    /\ req = [w \in Workers |-> NoReq]
    /\ answer = NoAnswer
    /\ calls = [prepare |-> 0, complete |-> 0, matched |-> [t \in Tids |-> 0]]
    /\ fiscalCount = [t \in Tids |-> 0]
    /\ notifications = [t \in Tids |-> 0]
    /\ invoiced = [t \in Tids |-> 0]
    /\ prepIssued = [t \in Tids |-> 0]
    /\ path = 0

\* ------------------------------------------------------------ chat handlers
\* The minute changes.
Tick ==
    /\ now < MaxTime
    /\ now' = now + 1
    /\ answer' = NoAnswer
    /\ UNCHANGED <<orders, nextOrderId, nextUuid, chatVars, hookVars, otherVars>>

\* /start: the dialogue begins again, with the registration for a user who has
\* no clients row.  "OrderForm.contact" stands for the states contact and name,
\* "OrderForm.product" for the states product ... delivery_comment.
send_welcome(u) ==
    /\ fsm' = [fsm EXCEPT ![<<u, u>>] = [state |-> IF u \in clients THEN "OrderForm.product"
                                                            ELSE "OrderForm.contact",
                                       order_id |-> 0]]
    /\ answer' = NoAnswer
    /\ UNCHANGED <<storeVars, lastApproved, approveButtons, acceptButtons, hookVars, otherVars>>

\* The contact and the name arrive: "INSERT INTO clients ... ON CONFLICT (user_id)
\* DO UPDATE"
register_name(u) ==
    /\ fsm[<<u, u>>].state = "OrderForm.contact"
    /\ clients' = clients \cup {u}
    /\ fsm' = [fsm EXCEPT ![<<u, u>>] = [state |-> "OrderForm.product", order_id |-> 0]]
    /\ answer' = NoAnswer
    /\ UNCHANGED <<storeVars, lastApproved, approveButtons, acceptButtons, dbButtons, invoiced,
                   hookVars>>

\* The intake dialogue ends: the order is inserted, then looked up again by
\* "ORDER BY order_time DESC LIMIT 1" to label the admins' keyboard.
send_order_to_admin(u, product, quantity) ==
    /\ fsm[<<u, u>>].state = "OrderForm.product"
    /\ LET new == NewRow(nextOrderId, u, product, quantity, "AwaitingApproval", 0)
           after == orders \cup {new}
           mine == {r \in after : r.user_id = u}
           latest == {r \in mine : \A s \in mine : s.order_time <= r.order_time}
       IN /\ orders' = after
          /\ \E r \in latest : approveButtons' = approveButtons \cup {r.order_id}
    /\ nextOrderId' = nextOrderId + 1
    /\ fsm' = [fsm EXCEPT ![<<u, u>>] = NoState]
    /\ answer' = NoAnswer
    /\ UNCHANGED <<nextUuid, now, lastApproved, acceptButtons, hookVars, otherVars>>

\* approve_order without its "admin_id not in ADMIN_CHAT_IDS" test
approve_order_by_anyone(chat, a, o) ==
    /\ o \in approveButtons /\ chat \in AdminChats /\ Sees(a, chat)
    /\ orders' = SqlUpdate(orders, LAMBDA r : r.order_id = o,
                           LAMBDA r : [r EXCEPT !.status = "AwaitingPrice"])
    /\ fsm' = [fsm EXCEPT ![<<chat, a>>] = [state |-> "waiting_for_price", order_id |-> o]]
    /\ lastApproved' = [lastApproved EXCEPT ![a] = o]
    /\ answer' = NoAnswer
    /\ UNCHANGED <<nextOrderId, nextUuid, now, approveButtons, acceptButtons, hookVars, otherVars>>

\* A press, by user a in the chat, of the approve button of order o.  The
\* keyboards were sent to every admin's private chat and to the group.
approve_order(chat, a, o) ==
    /\ o \in approveButtons /\ chat \in AdminChats /\ Sees(a, chat)
    /\ IF a \notin ADMIN_CHAT_IDS
       THEN answer' = NoRights /\ UNCHANGED <<orders, fsm, lastApproved>>
       ELSE /\ orders' = SqlUpdate(orders, LAMBDA r : r.order_id = o,
                                   LAMBDA r : [r EXCEPT !.status = "AwaitingPrice"])
            /\ fsm' = [fsm EXCEPT ![<<chat, a>>] =
                           [state |-> "waiting_for_price", order_id |-> o]]
            /\ lastApproved' = [lastApproved EXCEPT ![a] = o]
            /\ answer' = NoAnswer
    /\ UNCHANGED <<nextOrderId, nextUuid, now, approveButtons, acceptButtons, hookVars, otherVars>>

\* A text message of user a in a chat where a's FSM state is
\* AdminPriceState.waiting_for_price.
process_admin_price(chat, a, text) ==
    /\ Sees(a, chat) /\ fsm[<<chat, a>>].state = "waiting_for_price"
    /\ IF ~isdigit(text)
       THEN UNCHANGED <<orders, fsm, acceptButtons>>
       ELSE LET o == fsm[<<chat, a>>].order_id
                admin_price_sum == ParseFloat(text)
                after == SqlUpdate(orders, LAMBDA r : r.order_id = o,
                                   LAMBDA r : [r EXCEPT !.admin_price = admin_price_sum])
                cleared == [fsm EXCEPT ![<<chat, a>>] = NoState]
            IN IF o = 0
               THEN fsm' = cleared /\ UNCHANGED <<orders, acceptButtons>>
               ELSE /\ orders' = after
                    /\ IF ByOrderId(after, o) = {}
                       THEN fsm' = cleared /\ UNCHANGED acceptButtons
                       ELSE IF \E r \in ByOrderId(after, o) : r.quantity = 0
                            \* admin_price_sum * None raises: nothing is sent or cleared
                            THEN UNCHANGED <<fsm, acceptButtons>>
                            ELSE /\ acceptButtons' = acceptButtons \cup {o}
                                 /\ fsm' = cleared
    /\ answer' = NoAnswer
    /\ UNCHANGED <<nextOrderId, nextUuid, now, lastApproved, approveButtons, hookVars,
                   otherVars>>

\* total_amount_sum of client_accept_order: admin_price_sum * quantity of the row
\* with order_id o, the "amount" of the create_invoice payload
total_amount_sum(rows, o) ==
    LET result == CHOOSE r \in ByOrderId(rows, o) : TRUE
    IN result.admin_price * result.quantity

\* client_accept_order storing a link whatever create_invoice answered
client_accept_order_link_anyway(o, invoice) ==
    /\ o \in acceptButtons
    /\ LET s1 == SqlUpdate(orders, LAMBDA r : r.order_id = o,
                           LAMBDA r : [r EXCEPT !.status = "AwaitingPayment"])
           s3 == SqlUpdate(s1, LAMBDA r : r.order_id = o,
                           LAMBDA r : [r EXCEPT !.merchant_trans_id = nextUuid,
                                                !.payment_url = "url"])
       IN IF ByOrderId(s1, o) = {} \/ \E r \in ByOrderId(s1, o) : r.admin_price = -1
          THEN orders' = s1 /\ UNCHANGED <<nextUuid, invoiced>>
          ELSE /\ nextUuid' = nextUuid + 1
               /\ orders' = s3
               /\ invoiced' = [invoiced EXCEPT ![nextUuid] = total_amount_sum(s1, o)]
    /\ answer' = NoAnswer
    /\ UNCHANGED <<nextOrderId, now, chatVars, hookVars, adminVars>>

\* The client presses "confirm"; invoice is what POST /click-api/create_invoice
\* leads to: "url" (a payment_url or invoice_id came back) or "fail".
client_accept_order(o, invoice) ==
    /\ o \in acceptButtons
    /\ LET s1 == SqlUpdate(orders, LAMBDA r : r.order_id = o,
                           LAMBDA r : [r EXCEPT !.status = "AwaitingPayment"])
           s2 == SqlUpdate(s1, LAMBDA r : r.order_id = o,
                           LAMBDA r : [r EXCEPT !.merchant_trans_id = nextUuid])
           s3 == SqlUpdate(s2, LAMBDA r : r.order_id = o,
                           LAMBDA r : [r EXCEPT !.payment_url = "url"])
       IN IF ByOrderId(s1, o) = {} \/ \E r \in ByOrderId(s1, o) : r.admin_price = -1
          \* no row: return; float(None) raises: only the status was written
          THEN orders' = s1 /\ UNCHANGED <<nextUuid, invoiced>>
          ELSE /\ nextUuid' = nextUuid + 1
               /\ orders' = IF invoice = "url" THEN s3 ELSE s2
               /\ invoiced' = IF invoice = "url"
                              THEN [invoiced EXCEPT ![nextUuid] = total_amount_sum(s1, o)]
                              ELSE invoiced
    /\ answer' = NoAnswer
    /\ UNCHANGED <<nextOrderId, now, chatVars, hookVars, adminVars>>

\* client_cancel_order taking the payment back as well
client_cancel_order_unpays(o) ==
    /\ o \in acceptButtons
    /\ orders' = SqlUpdate(orders, LAMBDA r : r.order_id = o,
                           LAMBDA r : [r EXCEPT !.status = "CancelledByClient",
                                                !.is_paid = 0])
    /\ answer' = NoAnswer
    /\ UNCHANGED <<nextOrderId, nextUuid, now, chatVars, hookVars, otherVars>>

client_cancel_order(o) ==
    /\ o \in acceptButtons
    /\ orders' = SqlUpdate(orders, LAMBDA r : r.order_id = o,
                           LAMBDA r : [r EXCEPT !.status = "CancelledByClient"])
    /\ answer' = NoAnswer
    /\ UNCHANGED <<nextOrderId, nextUuid, now, chatVars, hookVars, otherVars>>

reject_order(a, o) ==
    /\ o \in approveButtons
    /\ IF a \notin ADMIN_CHAT_IDS
       THEN answer' = NoRights /\ UNCHANGED orders
       ELSE /\ orders' = SqlUpdate(orders, LAMBDA r : r.order_id = o,
                                   LAMBDA r : [r EXCEPT !.status = "RejectedByAdmin"])
            /\ answer' = NoAnswer
    /\ UNCHANGED <<nextOrderId, nextUuid, now, chatVars, hookVars, otherVars>>

\* ------------------------------------------------- database management menu
\* A chat is named by its id: a user's private chat has the user's id.  A
\* keyboard sent to a chat can be pressed by everyone who reads that chat.
MenuButtons == {"db_delete_client", "db_delete_order", "db_clear_orders"}
Shown(u, data) == {b \in dbButtons : b.data = data /\ Sees(u, b.chat)}

\* message.answer("У вас нет прав для управления базой данных.")
NoDbRights == [NoAnswer EXCEPT !.kind = "no_db_rights"]

\* The text "🔧 Управление базой данных" written to a chat.  The handlers of the
\* states contact, name and waiting_for_price are registered before this one
\* and take the message first.
db_management_menu(u, chat) ==
    /\ Sees(u, chat)
    /\ fsm[<<chat, u>>].state \notin {"OrderForm.contact", "waiting_for_price"}
    /\ IF u \notin ADMIN_CHAT_IDS
       THEN answer' = NoDbRights /\ UNCHANGED dbButtons
       ELSE /\ dbButtons' = dbButtons \cup {[chat |-> chat, data |-> d] : d \in MenuButtons}
            /\ answer' = NoAnswer
    /\ UNCHANGED <<storeVars, chatVars, clients, invoiced, hookVars>>

db_delete_client(u) ==
    /\ \E b \in Shown(u, "db_delete_client") :
          fsm' = [fsm EXCEPT ![<<b.chat, u>>].state = "waiting_for_client_id"]
    /\ answer' = NoAnswer
    /\ UNCHANGED <<storeVars, lastApproved, approveButtons, acceptButtons, otherVars, hookVars>>

\* A text message of a user whose FSM state is waiting_for_client_id.
process_client_deletion(u, text) ==
    /\ \E chat \in Chats :
          /\ Sees(u, chat) /\ fsm[<<chat, u>>].state = "waiting_for_client_id"
          /\ IF ~isdigit(text)
             THEN UNCHANGED <<clients, fsm>>
             ELSE /\ clients' = clients \ {IntOf(text)}
                  /\ fsm' = [fsm EXCEPT ![<<chat, u>>] = NoState]
    /\ answer' = NoAnswer
    /\ UNCHANGED <<storeVars, lastApproved, approveButtons, acceptButtons, dbButtons, invoiced,
                   hookVars>>

db_delete_order(u) ==
    /\ \E b \in Shown(u, "db_delete_order") :
          fsm' = [fsm EXCEPT ![<<b.chat, u>>].state = "waiting_for_order_id"]
    /\ answer' = NoAnswer
    /\ UNCHANGED <<storeVars, lastApproved, approveButtons, acceptButtons, otherVars, hookVars>>

\* A text message of a user whose FSM state is waiting_for_order_id.
process_order_deletion(u, text) ==
    /\ \E chat \in Chats :
          /\ Sees(u, chat) /\ fsm[<<chat, u>>].state = "waiting_for_order_id"
          /\ IF ~isdigit(text)
             THEN UNCHANGED <<orders, fsm>>
             ELSE /\ orders' = {r \in orders : r.order_id # IntOf(text)}
                  /\ fsm' = [fsm EXCEPT ![<<chat, u>>] = NoState]
    /\ answer' = NoAnswer
    /\ UNCHANGED <<nextOrderId, nextUuid, now, lastApproved, approveButtons, acceptButtons,
                   otherVars, hookVars>>

\* "Очистить заказы": the question with its confirm button goes to the same chat
db_clear_orders(u) ==
    /\ \E b \in Shown(u, "db_clear_orders") :
          dbButtons' = dbButtons \cup {[chat |-> b.chat, data |-> "db_clear_orders_confirm"]}
    /\ answer' = NoAnswer
    /\ UNCHANGED <<storeVars, chatVars, clients, invoiced, hookVars>>

\* "DELETE FROM orders"
db_clear_orders_confirm(u) ==
    /\ Shown(u, "db_clear_orders_confirm") # {}
    /\ orders' = {}
    /\ answer' = NoAnswer
    /\ UNCHANGED <<nextOrderId, nextUuid, now, chatVars, otherVars, hookVars>>

\* ------------------------------------------------------------ CLICK webhooks
\* What the gateway (or anyone else) may POST.  A request names the key its
\* signer used; sign_string is the MD5 the signer computes over the texts sent.
AmountTexts == { <<"1", "0", "0", "0", "0", "0">>,
                 <<"1", "0", "0", "0", "0", "0", ".", "0">>,
                 <<"a", "b", "c">> }
ActionTexts == { <<"0">>, <<"1">> }
PriceTexts == { <<"0">>, <<"5", "0", "0", "0", "0">>, <<"a", "b", "c">> }
KnownTids == (1..(nextUuid - 1)) \cup {ForeignTid}
GoodAmount == <<"1", "0", "0", "0", "0", "0", ".", "0">>
\* A request is well formed (the amount as "100000.0"), or differs from a well
\* formed one in one field.
Defects(right_action) ==
    {[amount |-> a, action |-> right_action, key |-> SECRET_KEY] :
        a \in AmountTexts \ {GoodAmount}}
    \cup {[amount |-> GoodAmount, action |-> x, key |-> SECRET_KEY] :
        x \in ActionTexts \ {right_action}}
    \cup {[amount |-> GoodAmount, action |-> right_action, key |-> WrongKey]}
Shapes(right_action) ==
    {[amount |-> GoodAmount, action |-> right_action, key |-> SECRET_KEY]}
    \cup Defects(right_action)
PrepareRequests ==
    {[tid |-> t, amount |-> f.amount, action |-> f.action, key |-> f.key] :
        t \in KnownTids, f \in Shapes(<<"0">>)}
\* merchant_prepare_id of a complete request: what prepare answered last for the
\* transaction, or 0, which prepare never answers
CompleteRequests ==
    UNION {{[tid |-> t, prep |-> p, amount |-> f.amount, action |-> f.action,
             key |-> f.key] : p \in {0, prepIssued[t]}, f \in Shapes(<<"1">>)} :
           t \in KnownTids}

\* merchant_prepare_id as prepare answers it: an order_id, or (written -t here)
\* the merchant_trans_id t itself when the row is gone
PrepText(p) == IF p < 0 THEN TidText(0 - p) ELSE StrOfInt(p)

PrepareData(tid, amount, action, key) ==
    ClickTransId \o ServiceId \o key \o TidText(tid) \o amount \o action \o SignTime
CompleteData(tid, prep, amount, action, key) ==
    ClickTransId \o ServiceId \o key \o TidText(tid) \o PrepText(prep) \o amount
        \o action \o SignTime

\* sign_string of a request as its sender computed it
PrepareSignString(in) == md5_hash(PrepareData(in.tid, in.amount, in.action, in.key))
CompleteSignString(in) ==
    md5_hash(CompleteData(in.tid, in.prep, in.amount, in.action, in.key))

\* expected_sign of the handlers: amount is float(request.form["amount"]) put
\* back into the f-string
PrepareExpectedSign(in) ==
    md5_hash(PrepareData(in.tid, FormatFloat(ParseFloat(in.amount)), in.action, SECRET_KEY))
CompleteExpectedSign(in) ==
    md5_hash(CompleteData(in.tid, in.prep, FormatFloat(ParseFloat(in.amount)), in.action,
                          SECRET_KEY))

\* the checks of prepare() before it touches the table; 0 when all pass
PrepareValidate(in) ==
    IF ParseFloat(in.amount) = -1 THEN -8
    ELSE IF in.action # <<"0">> THEN -8
    ELSE IF PrepareExpectedSign(in) # PrepareSignString(in) THEN -8
    ELSE 0

CompleteValidate(in) ==
    IF ParseFloat(in.amount) = -1 THEN -8
    ELSE IF in.action # <<"1">> THEN -8
    ELSE IF CompleteExpectedSign(in) # CompleteSignString(in) THEN -8
    ELSE 0

Free(w) == pc[w] = "idle" /\ \A v \in Workers : v < w => pc[v] # "idle"
InFlight(w) == pc[w] # "idle"

\* return jsonify(...): the answer leaves and the thread is free again.  Only the
\* answers with error 0 carry merchant_trans_id and a prepare/confirm id.
Answer(w, kind, tid, error, prepare_id) ==
    /\ pc' = [pc EXCEPT ![w] = "idle"]
    /\ req' = [req EXCEPT ![w] = NoReq]
    /\ answer' = [kind |-> kind, tid |-> tid, error |-> error,
                  merchant_prepare_id |-> prepare_id,
                  fiscal_items |-> IF kind = "complete" /\ error = 0
                                   THEN req[w].fiscal_item ELSE NoItem,
                  fiscal_response |-> IF kind = "complete" /\ error = 0
                                      THEN req[w].fiscal_result ELSE "none"]

\* prepare() as it would be if its UPDATE also wrote is_paid = 0
PrepareBeginResetsPaid(w, in) ==
    /\ Free(w)
    /\ IF PrepareValidate(in) # 0
       THEN Answer(w, "prepare", 0, PrepareValidate(in), 0) /\ UNCHANGED <<orders, calls>>
       ELSE /\ calls.prepare < MaxPrepares
            /\ calls' = [calls EXCEPT !.prepare = @ + 1]
            /\ orders' = SqlUpdate(orders, LAMBDA r : r.merchant_trans_id = in.tid,
                                   LAMBDA r : [r EXCEPT !.status = "pending",
                                                        !.is_paid = 0])
            /\ pc' = [pc EXCEPT ![w] = IF ByTransId(orders, in.tid) = {}
                                       THEN "p_insert" ELSE "p_select"]
            /\ req' = [req EXCEPT ![w] = [kind |-> "prepare", tid |-> in.tid, prep |-> 0,
                                          amount |-> ParseFloat(in.amount),
                                          fiscal_item |-> NoItem,
                                          fiscal_result |-> "none"]]
            /\ answer' = NoAnswer
    /\ UNCHANGED <<nextOrderId, nextUuid, now, chatVars, otherVars, fiscalCount, notifications,
                   prepIssued>>

\* prepare(): the field checks, then "UPDATE orders SET status='pending' ..."
PrepareBegin(w, in) ==
    /\ Free(w)
    /\ IF PrepareValidate(in) # 0
       THEN Answer(w, "prepare", 0, PrepareValidate(in), 0) /\ UNCHANGED <<orders, calls>>
       ELSE /\ calls.prepare < MaxPrepares
            /\ calls' = [calls EXCEPT !.prepare = @ + 1]
            /\ orders' = SqlUpdate(orders, LAMBDA r : r.merchant_trans_id = in.tid,
                                   LAMBDA r : [r EXCEPT !.status = "pending"])
            /\ pc' = [pc EXCEPT ![w] = IF ByTransId(orders, in.tid) = {}
                                       THEN "p_insert" ELSE "p_select"]
            /\ req' = [req EXCEPT ![w] = [kind |-> "prepare", tid |-> in.tid, prep |-> 0,
                                          amount |-> ParseFloat(in.amount),
                                          fiscal_item |-> NoItem,
                                          fiscal_result |-> "none"]]
            /\ answer' = NoAnswer
    /\ UNCHANGED <<nextOrderId, nextUuid, now, chatVars, otherVars, fiscalCount, notifications,
                   prepIssued>>

\* cursor.rowcount == 0: "INSERT INTO orders (merchant_trans_id, status, cost_info)"
PrepareInsert(w) ==
    /\ pc[w] = "p_insert"
    /\ Cardinality(orders \ Placed) < MaxBare
    /\ orders' = orders \cup {NewRow(nextOrderId, 0, "NULL", 0, "pending", req[w].tid)}
    /\ nextOrderId' = nextOrderId + 1
    /\ Answer(w, "prepare", req[w].tid, 0, nextOrderId)
    /\ prepIssued' = [prepIssued EXCEPT ![req[w].tid] = nextOrderId]
    /\ UNCHANGED <<nextUuid, now, chatVars, otherVars, calls, fiscalCount, notifications>>

\* cursor.rowcount > 0: "SELECT order_id FROM orders WHERE merchant_trans_id=%s"
PrepareSelect(w) ==
    /\ pc[w] = "p_select"
    /\ \E id \in IF ByTransId(orders, req[w].tid) = {}
                 THEN {0 - req[w].tid}
                 ELSE {r.order_id : r \in ByTransId(orders, req[w].tid)} :
          /\ Answer(w, "prepare", req[w].tid, 0, id)
          /\ prepIssued' = [prepIssued EXCEPT ![req[w].tid] = id]
    /\ UNCHANGED <<storeVars, chatVars, otherVars, calls, fiscalCount, notifications>>

\* the request carries the merchant_prepare_id that prepare answered last
Matching(in) == prepIssued[in.tid] # 0 /\ in.prep = prepIssued[in.tid]

\* complete(): the field checks, then "SELECT * FROM orders WHERE merchant_trans_id=%s"
CompleteBegin(w, in) ==
    /\ Free(w)
    /\ IF CompleteValidate(in) # 0
       THEN Answer(w, "complete", 0, CompleteValidate(in), 0) /\ UNCHANGED calls
       ELSE /\ calls.complete < MaxCompletes
            /\ calls' = [calls EXCEPT !.complete = @ + 1,
                                      !.matched[in.tid] = @ + IF Matching(in) THEN 1 ELSE 0]
            /\ IF ByTransId(orders, in.tid) = {}
               THEN Answer(w, "complete", 0, -5, 0)
               ELSE \E order_row \in ByTransId(orders, in.tid) :
                    IF order_row.is_paid = 1
                    THEN Answer(w, "complete", 0, -4, 0)
                    ELSE /\ pc' = [pc EXCEPT ![w] = "c_mark"]
                         /\ req' = [req EXCEPT ![w] =
                                       [kind |-> "complete", tid |-> in.tid,
                                        prep |-> in.prep,
                                        amount |-> ParseFloat(in.amount),
                                        fiscal_item |-> NoItem,
                                        fiscal_result |-> "none"]]
                         /\ answer' = NoAnswer
    /\ UNCHANGED <<storeVars, chatVars, otherVars, fiscalCount, notifications, prepIssued>>

\* "UPDATE orders SET is_paid=1, status='processing' WHERE merchant_trans_id=%s"
CompleteMark(w) ==
    /\ pc[w] = "c_mark"
    /\ orders' = SqlUpdate(orders, LAMBDA r : r.merchant_trans_id = req[w].tid,
                           LAMBDA r : [r EXCEPT !.is_paid = 1, !.status = "processing"])
    /\ pc' = [pc EXCEPT ![w] = "c_read"]
    /\ answer' = NoAnswer
    /\ UNCHANGED <<nextOrderId, nextUuid, now, chatVars, otherVars, req, calls, fiscalCount,
                   notifications,
                   prepIssued>>

\* "SELECT admin_price, product, quantity ..." and create_fiscal_item()
CompleteRead(w) ==
    /\ pc[w] = "c_read"
    /\ IF ByTransId(orders, req[w].tid) = {}
       THEN Answer(w, "complete", 0, -8, 0)
       ELSE \E row \in ByTransId(orders, req[w].tid) :
               IF row.admin_price = -1 \/ row.admin_price = 0
               THEN Answer(w, "complete", 0, -8, 0)
               ELSE IF row.product \notin products_data \/ row.quantity = 0
                    THEN Answer(w, "complete", 0, -10, 0)
                    \* unit_price = admin_price * 100
                    ELSE /\ pc' = [pc EXCEPT ![w] = "c_fiscal"]
                         /\ req' = [req EXCEPT ![w].fiscal_item =
                                       create_fiscal_item(row.product, row.quantity,
                                                          row.admin_price * 100)]
                         /\ answer' = NoAnswer
    /\ UNCHANGED <<storeVars, chatVars, otherVars, calls, fiscalCount, notifications, prepIssued>>

\* What requests.post(".../ofd_data/submit_items") leads to: status 200 with a
\* JSON body, another status, or an exception (a timeout, a body that is no JSON)
FiscalOutcomes == {"ok", "non200", "exception"}

\* requests.post(".../ofd_data/submit_items"): whatever comes back is logged and
\* kept as fiscal_result for the answer
CompleteFiscal(w) ==
    /\ pc[w] = "c_fiscal"
    /\ fiscalCount' = [fiscalCount EXCEPT ![req[w].tid] = @ + 1]
    /\ pc' = [pc EXCEPT ![w] = "c_finish"]
    /\ \E outcome \in FiscalOutcomes : req' = [req EXCEPT ![w].fiscal_result = outcome]
    /\ answer' = NoAnswer
    /\ UNCHANGED <<storeVars, chatVars, otherVars, calls, notifications, prepIssued>>

\* complete() as it would be if a failed submission stopped it with -10
CompleteFinishOnlyFiscalised(w) ==
    /\ pc[w] = "c_finish"
    /\ IF req[w].fiscal_result = "ok"
       THEN /\ orders' = SqlUpdate(orders, LAMBDA r : r.merchant_trans_id = req[w].tid,
                                   LAMBDA r : [r EXCEPT !.status = "completed"])
            /\ Answer(w, "complete", req[w].tid, 0, req[w].prep)
       ELSE Answer(w, "complete", 0, -10, 0) /\ UNCHANGED orders
    /\ UNCHANGED <<nextOrderId, nextUuid, now, chatVars, otherVars, calls, fiscalCount,
                   notifications, prepIssued>>

\* "UPDATE orders SET status='completed' WHERE merchant_trans_id=%s" and the answer
CompleteFinish(w) ==
    /\ pc[w] = "c_finish"
    /\ orders' = SqlUpdate(orders, LAMBDA r : r.merchant_trans_id = req[w].tid,
                           LAMBDA r : [r EXCEPT !.status = "completed"])
    /\ Answer(w, "complete", req[w].tid, 0, req[w].prep)
    /\ UNCHANGED <<nextOrderId, nextUuid, now, chatVars, otherVars, calls, fiscalCount,
                   notifications, prepIssued>>

\* ---------------------------------------------------------------- observer
\* path records progress along the payment scenario; no handler reads it.
\* The scenario order is the first row ever inserted (order_id 1, uuid 1).
\* 0 nothing yet, 1 submitted with quantity 2, 2 approved, 3 priced 50000,
\* 4 confirmed, 5 prepare running, 6 prepare answered, 7 complete running,
\* 8 complete answered, -1 anything else happened.
ScenarioPrice == <<"5", "0", "0", "0", "0">>
ScenarioAmount == IntOf(ScenarioPrice) * 2

ScenarioPrepare(in) ==
    /\ path = 4 /\ in.tid = 1 /\ ParseFloat(in.amount) = ScenarioAmount
    /\ in.action = <<"0">> /\ in.key = SECRET_KEY

ScenarioComplete(in) ==
    /\ path = 6 /\ in.tid = 1 /\ ParseFloat(in.amount) = ScenarioAmount
    /\ in.action = <<"1">> /\ in.key = SECRET_KEY
    /\ answer.kind = "prepare" /\ answer.error = 0
    /\ in.prep = answer.merchant_prepare_id

Start(u) == send_welcome(u) /\ UNCHANGED path
Register(u) == register_name(u) /\ UNCHANGED path
Submit(u, p, q) ==
    send_order_to_admin(u, p, q) /\ path' = (IF path = 0 /\ q = 2 THEN 1 ELSE -1)
\* where the scenarios' users press and write: an admin in the private chat,
\* anyone else in the group
Desk(a) == IF a \in ADMIN_CHAT_IDS THEN a ELSE GROUP_CHAT_ID
Approve(a, o) ==
    approve_order(Desk(a), a, o)
    /\ path' = (IF path = 1 /\ o = 1 /\ a \in ADMIN_CHAT_IDS THEN 2 ELSE -1)
SetPrice(a, text) ==
    process_admin_price(Desk(a), a, text)
    /\ path' = (IF path = 2 /\ text = ScenarioPrice THEN 3 ELSE -1)
ClientConfirm(o, invoice) ==
    client_accept_order(o, invoice) /\ path' = (IF path = 3 /\ o = 1 THEN 4 ELSE -1)
ClientCancel(o) == client_cancel_order(o) /\ path' = -1
Reject(a, o) == reject_order(a, o) /\ path' = -1
Prepare(w, in) ==
    PrepareBegin(w, in)
    /\ path' = (IF ScenarioPrepare(in) THEN (IF InFlight(w)' THEN 5 ELSE 6) ELSE -1)
PrepareStep(w) ==
    (PrepareInsert(w) \/ PrepareSelect(w)) /\ path' = (IF path = 5 THEN 6 ELSE -1)
Complete(w, in) ==
    CompleteBegin(w, in)
    /\ path' = (IF ScenarioComplete(in) THEN (IF InFlight(w)' THEN 7 ELSE 8) ELSE -1)
CompleteStep(w) ==
    (CompleteMark(w) \/ CompleteRead(w) \/ CompleteFiscal(w) \/ CompleteFinish(w))
    /\ path' = (IF path = 7 THEN (IF InFlight(w)' THEN 7 ELSE 8) ELSE -1)

\* ------------------------------------------------------------ specifications
\* Spec: one order is placed and paid for; the webhook requests are those the
\* field checks let through, served by two threads.  (A request the checks
\* turn away changes nothing but the answer: WireSpec draws those.  A press of
\* approve or reject by someone who is no admin changes nothing but the alert:
\* ChatSpec draws those.)
Accepted(requests, Validate(_)) == {in \in requests : Validate(in) = 0}

Next ==
    \/ \E u \in Clients : Cardinality(Placed) < MaxOrders /\ Start(u)
    \/ \E u \in Clients : Register(u)
    \/ \E u \in Clients, p \in Products, q \in Quantities :
          Cardinality(Placed) < MaxOrders /\ Submit(u, p, q)
    \/ \E a \in ADMIN_CHAT_IDS, o \in OrderIds : Approve(a, o)
    \/ \E a \in Users, text \in PriceTexts : SetPrice(a, text)
    \/ \E o \in OrderIds, invoice \in {"url", "fail"} :
          nextUuid <= MaxUuid /\ ClientConfirm(o, invoice)
    \/ \E o \in OrderIds : ClientCancel(o)
    \/ \E a \in ADMIN_CHAT_IDS, o \in OrderIds : Reject(a, o)
    \/ \E w \in Workers :
          /\ Free(w) /\ calls.prepare < MaxPrepares
          /\ \E in \in Accepted(PrepareRequests, PrepareValidate) : Prepare(w, in)
    \/ \E w \in Workers : PrepareInsert(w) /\ path' = (IF path = 5 THEN 6 ELSE -1)
    \/ \E w \in Workers : PrepareSelect(w) /\ path' = (IF path = 5 THEN 6 ELSE -1)
    \/ \E w \in Workers :
          /\ Free(w) /\ calls.complete < MaxCompletes
          /\ \E in \in Accepted(CompleteRequests, CompleteValidate) : Complete(w, in)
    \/ \E w \in Workers : CompleteMark(w) /\ path' = (IF path = 7 THEN 7 ELSE -1)
    \/ \E w \in Workers :
          CompleteRead(w) /\ path' = (IF path = 7 THEN (IF InFlight(w)' THEN 7 ELSE 8) ELSE -1)
    \/ \E w \in Workers : CompleteFiscal(w) /\ path' = (IF path = 7 THEN 7 ELSE -1)
    \/ \E w \in Workers : CompleteFinish(w) /\ path' = (IF path = 7 THEN 8 ELSE -1)

Spec == Init /\ [][Next]_vars

\* WireSpec: the same order, every request the gateway or a stranger may send,
\* one request at a time.
Quiet == \A w \in Workers : ~InFlight(w)

WireNext ==
    \/ \E u \in Clients : Cardinality(Placed) < MaxOrders /\ Start(u)
    \/ \E u \in Clients : Register(u)
    \/ \E u \in Clients, p \in Products, q \in Quantities :
          Cardinality(Placed) < MaxOrders /\ Submit(u, p, q)
    \/ \E a \in ADMIN_CHAT_IDS, o \in OrderIds : Approve(a, o)
    \/ \E a \in Users, text \in PriceTexts : SetPrice(a, text)
    \/ \E o \in OrderIds, invoice \in {"url", "fail"} :
          nextUuid <= MaxUuid /\ ClientConfirm(o, invoice)
    \/ \E o \in OrderIds : ClientCancel(o)
    \/ \E a \in ADMIN_CHAT_IDS, o \in OrderIds : Reject(a, o)
    \/ \E w \in Workers : Quiet /\ \E in \in PrepareRequests : Prepare(w, in)
    \/ \E w \in Workers : PrepareStep(w)
    \/ \E w \in Workers : Quiet /\ \E in \in CompleteRequests : Complete(w, in)
    \/ \E w \in Workers : CompleteStep(w)

WireSpec == Init /\ [][WireNext]_vars

\* ChatSpec: several orders in the chat, the clock running, no webhook.
ChatNext ==
    \/ Tick /\ UNCHANGED path
    \/ \E u \in Clients : Cardinality(Placed) < MaxChatOrders /\ Start(u)
    \/ \E u \in Clients : Register(u)
    \/ \E u \in Clients, p \in Products, q \in Quantities :
          Cardinality(Placed) < MaxChatOrders /\ Submit(u, p, q)
    \/ \E a \in Users, o \in OrderIds : Approve(a, o)
    \/ \E a \in Users, text \in PriceTexts : SetPrice(a, text)
    \/ \E o \in OrderIds, invoice \in {"url", "fail"} :
          nextUuid <= MaxChatUuid /\ ClientConfirm(o, invoice)
    \/ \E o \in OrderIds : ClientCancel(o)
    \/ \E a \in Users, o \in OrderIds : Reject(a, o)

ChatSpec == Init /\ [][ChatNext]_vars

\* DialogueSpec: one order in the chat, pressed and answered by anyone, no webhook.
DialogueNext ==
    \/ \E u \in Clients : Cardinality(Placed) < MaxOrders /\ Start(u)
    \/ \E u \in Clients : Register(u)
    \/ \E u \in Clients, p \in Products, q \in Quantities :
          Cardinality(Placed) < MaxOrders /\ Submit(u, p, q)
    \/ \E a \in Users, o \in OrderIds : Approve(a, o)
    \/ \E a \in Users, text \in PriceTexts : SetPrice(a, text)
    \/ \E o \in OrderIds, invoice \in {"url", "fail"} :
          nextUuid <= MaxUuid /\ ClientConfirm(o, invoice)
    \/ \E o \in OrderIds : ClientCancel(o)
    \/ \E a \in Users, o \in OrderIds : Reject(a, o)

DialogueSpec == Init /\ [][DialogueNext]_vars

\* CaptureSpec: the chat with orders of quantity 2, every invoice created, and
\* the complete requests for the orders placed in it, one request at a time.
PlacedTids == {r.merchant_trans_id : r \in Placed} \ {0}

CaptureNext ==
    \/ \E u \in Clients : Cardinality(Placed) < MaxOrders /\ Start(u)
    \/ \E u \in Clients : Register(u)
    \/ \E u \in Clients, p \in Products :
          Cardinality(Placed) < MaxOrders /\ Submit(u, p, 2)
    \/ \E a \in ADMIN_CHAT_IDS, o \in OrderIds : Approve(a, o)
    \/ \E a \in Users, text \in PriceTexts : SetPrice(a, text)
    \/ \E o \in OrderIds : nextUuid <= MaxUuid /\ ClientConfirm(o, "url")
    \/ \E o \in OrderIds : ClientCancel(o)
    \/ \E a \in ADMIN_CHAT_IDS, o \in OrderIds : Reject(a, o)
    \/ \E w \in Workers :
          /\ Quiet /\ calls.complete < MaxCompletes
          /\ \E in \in Accepted(CompleteRequests, CompleteValidate) :
                in.tid \in PlacedTids /\ Complete(w, in)
    \/ \E w \in Workers : CompleteStep(w)

CaptureSpec == Init /\ [][CaptureNext]_vars

\* LiveSpec: CaptureSpec with the scheduling of the webhook: a Flask thread that
\* holds a request keeps running until it has answered, and the gateway goes on
\* sending complete for the orders placed (as long as the budget lasts).
CompleteArrives ==
    \E w \in Workers :
       /\ Quiet /\ calls.complete < MaxCompletes
       /\ \E in \in Accepted(CompleteRequests, CompleteValidate) :
             in.tid \in PlacedTids /\ Complete(w, in)

LiveSpec ==
    /\ Init /\ [][CaptureNext]_vars
    /\ \A w \in Workers : WF_vars(CompleteStep(w))
    /\ WF_vars(CompleteArrives)

\* RaceSpec: an order whose client may press the confirm button again, and the
\* correctly signed prepare and complete requests for the transactions invoiced,
\* served by two threads while the chat goes on.
IssuedTids == 1..(nextUuid - 1)

RaceNext ==
    \/ \E u \in Clients : Cardinality(Placed) < MaxOrders /\ Start(u)
    \/ \E u \in Clients : Register(u)
    \/ \E u \in Clients, p \in Products :
          Cardinality(Placed) < MaxOrders /\ Submit(u, p, 2)
    \/ \E a \in ADMIN_CHAT_IDS, o \in OrderIds : Approve(a, o)
    \/ \E a \in ADMIN_CHAT_IDS : SetPrice(a, ScenarioPrice)
    \/ \E o \in OrderIds : nextUuid <= MaxChatUuid /\ ClientConfirm(o, "url")
    \/ \E w \in Workers :
          /\ Free(w) /\ calls.prepare < MaxPrepares
          /\ \E in \in Accepted(PrepareRequests, PrepareValidate) :
                in.tid \in IssuedTids /\ Prepare(w, in)
    \/ \E w \in Workers : PrepareStep(w)
    \/ \E w \in Workers :
          /\ Free(w) /\ calls.complete < MaxCompletes
          /\ \E in \in Accepted(CompleteRequests, CompleteValidate) :
                in.tid \in IssuedTids /\ Complete(w, in)
    \/ \E w \in Workers : CompleteStep(w)

RaceSpec == Init /\ [][RaceNext]_vars

\* PaidSpec: the five chat operations on an order of the scenario's price, the
\* correctly signed complete requests for it, and the prepare requests that
\* reach the webhook once a complete was served, one request at a time.
PaidNext ==
    \/ \E u \in Clients : Cardinality(Placed) < MaxOrders /\ Start(u)
    \/ \E u \in Clients : Register(u)
    \/ \E u \in Clients, p \in Products :
          Cardinality(Placed) < MaxOrders /\ Submit(u, p, 2)
    \/ \E a \in ADMIN_CHAT_IDS, o \in OrderIds : Approve(a, o)
    \/ \E a \in ADMIN_CHAT_IDS : SetPrice(a, ScenarioPrice)
    \/ \E o \in OrderIds : nextUuid <= MaxUuid /\ ClientConfirm(o, "url")
    \/ \E o \in OrderIds : ClientCancel(o)
    \/ \E a \in ADMIN_CHAT_IDS, o \in OrderIds : Reject(a, o)
    \/ \E w \in Workers :
          /\ Quiet /\ calls.prepare < MaxPrepares /\ calls.complete > 0
          /\ \E in \in Accepted(PrepareRequests, PrepareValidate) :
                in.tid \in PlacedTids /\ Prepare(w, in)
    \/ \E w \in Workers : PrepareSelect(w) /\ path' = (IF path = 5 THEN 6 ELSE -1)
    \/ \E w \in Workers :
          /\ Quiet /\ calls.complete < MaxCompletes
          /\ \E in \in Accepted(CompleteRequests, CompleteValidate) :
                in.tid \in PlacedTids /\ Complete(w, in)
    \/ \E w \in Workers : CompleteStep(w)

PaidSpec == Init /\ [][PaidNext]_vars

\* PricingSpec: several orders, and an admin who approves and writes prices in
\* the private chat and in the group.
ApproveIn(chat, a, o) == approve_order(chat, a, o) /\ path' = -1
SetPriceIn(chat, a, text) == process_admin_price(chat, a, text) /\ path' = -1

PricingNext ==
    \/ \E u \in Clients : Cardinality(Placed) < MaxChatOrders /\ Start(u)
    \/ \E u \in Clients : Register(u)
    \/ \E u \in Clients, p \in Products :
          Cardinality(Placed) < MaxChatOrders /\ Submit(u, p, 2)
    \/ \E chat \in AdminChats, a \in ADMIN_CHAT_IDS, o \in OrderIds : ApproveIn(chat, a, o)
    \/ \E chat \in AdminChats, a \in ADMIN_CHAT_IDS, text \in PriceTexts :
          SetPriceIn(chat, a, text)

PricingSpec == Init /\ [][PricingNext]_vars

\* ReserveSpec: an order confirmed with its invoice created, and the correctly
\* signed prepare and complete requests for it, one request at a time.
ReserveNext ==
    \/ \E u \in Clients : Cardinality(Placed) < MaxOrders /\ Start(u)
    \/ \E u \in Clients : Register(u)
    \/ \E u \in Clients, p \in Products :
          Cardinality(Placed) < MaxOrders /\ Submit(u, p, 2)
    \/ \E a \in ADMIN_CHAT_IDS, o \in OrderIds : Approve(a, o)
    \/ \E a \in ADMIN_CHAT_IDS : SetPrice(a, ScenarioPrice)
    \/ \E o \in OrderIds : nextUuid <= MaxUuid /\ ClientConfirm(o, "url")
    \/ \E w \in Workers :
          /\ Quiet /\ calls.prepare < MaxPrepares
          /\ \E in \in Accepted(PrepareRequests, PrepareValidate) :
                in.tid \in PlacedTids /\ Prepare(w, in)
    \/ \E w \in Workers : PrepareSelect(w) /\ path' = (IF path = 5 THEN 6 ELSE -1)
    \/ \E w \in Workers :
          /\ Quiet /\ calls.complete < MaxCompletes
          /\ \E in \in Accepted(CompleteRequests, CompleteValidate) :
                in.tid \in PlacedTids /\ Complete(w, in)
    \/ \E w \in Workers : CompleteStep(w)

ReserveSpec == Init /\ [][ReserveNext]_vars

\* FiscalSpec: orders priced at several prices, confirmed with their invoices
\* created, and the correctly signed complete requests for them.
FiscalPriceTexts ==
    { <<"1">>, <<"7">>, <<"3", "3">>, <<"5", "6", "0">>, <<"1", "1", "2", "0">>, ScenarioPrice }

FiscalNext ==
    \/ \E u \in Clients : Cardinality(Placed) < MaxOrders /\ Start(u)
    \/ \E u \in Clients : Register(u)
    \/ \E u \in Clients, p \in Products, q \in Quantities :
          Cardinality(Placed) < MaxOrders /\ Submit(u, p, q)
    \/ \E a \in ADMIN_CHAT_IDS, o \in OrderIds : Approve(a, o)
    \/ \E a \in ADMIN_CHAT_IDS, text \in FiscalPriceTexts : SetPrice(a, text)
    \/ \E o \in OrderIds : nextUuid <= MaxUuid /\ ClientConfirm(o, "url")
    \/ \E w \in Workers :
          /\ Quiet /\ calls.complete < MaxCompletes
          /\ \E in \in Accepted(CompleteRequests, CompleteValidate) :
                in.tid \in PlacedTids /\ Complete(w, in)
    \/ \E w \in Workers : CompleteStep(w)

FiscalSpec == Init /\ [][FiscalNext]_vars

\* VatSpec: create_fiscal_item on its inputs.  It starts where client 2 has an
\* order of some quantity, priced at some price and confirmed with its invoice
\* created; then come the correctly signed complete requests for it.
VatInit ==
    \E text \in FiscalPriceTexts, p \in Products, q \in Quantities :
       /\ now = 0
       /\ orders = {[order_id |-> 1, user_id |-> 2, product |-> p, quantity |-> q,
                     status |-> "AwaitingPayment", merchant_trans_id |-> 1,
                     order_time |-> 0, admin_price |-> ParseFloat(text),
                     payment_url |-> "url", is_paid |-> 0]}
       /\ clients = {2}
       /\ nextOrderId = 2
       /\ nextUuid = 2
       /\ fsm = [k \in FsmKeys |-> NoState]
       /\ lastApproved = [u \in Users |-> 0]
       /\ approveButtons = {1}
       /\ acceptButtons = {1}
       /\ dbButtons = {}
       /\ invoiced = [t \in Tids |-> IF t = 1 THEN ParseFloat(text) * q ELSE 0]
       /\ pc = [w \in Workers |-> "idle"]
       /\ req = [w \in Workers |-> NoReq]
       /\ answer = NoAnswer
       /\ calls = [prepare |-> 0, complete |-> 0, matched |-> [t \in Tids |-> 0]]
       /\ fiscalCount = [t \in Tids |-> 0]
       /\ notifications = [t \in Tids |-> 0]
       /\ prepIssued = [t \in Tids |-> 0]
       /\ path = -1

VatNext ==
    \/ \E w \in Workers :
          /\ Quiet /\ calls.complete < MaxCompletes
          /\ \E in \in Accepted(CompleteRequests, CompleteValidate) :
                in.tid \in PlacedTids /\ Complete(w, in)
    \/ \E w \in Workers : CompleteStep(w)

VatSpec == VatInit /\ [][VatNext]_vars

\* StoreSpec: registration, the orders placed, and the database management
\* menu, written to and pressed by anyone.
IdTexts == { <<"1">>, <<"2">>, <<"a">> }

StoreNext ==
    \/ \E u \in Users : nextOrderId <= MaxOrders /\ Start(u)
    \/ \E u \in Users : Register(u)
    \/ \E u \in Users, p \in Products, q \in Quantities :
          nextOrderId <= MaxOrders /\ Submit(u, p, q)
    \/ \E u \in Users, chat \in AdminChats : db_management_menu(u, chat) /\ UNCHANGED path
    \/ \E u \in Users : db_delete_client(u) /\ UNCHANGED path
    \/ \E u \in Users, text \in IdTexts : process_client_deletion(u, text) /\ UNCHANGED path
    \/ \E u \in Users : db_delete_order(u) /\ UNCHANGED path
    \/ \E u \in Users, text \in IdTexts : process_order_deletion(u, text) /\ UNCHANGED path
    \/ \E u \in Users : db_clear_orders(u) /\ UNCHANGED path
    \/ \E u \in Users : db_clear_orders_confirm(u) /\ UNCHANGED path

StoreSpec == Init /\ [][StoreNext]_vars

\* ---------------------------------------------------------------- claims
Cancelled == {"CancelledByClient", "RejectedByAdmin"}
Terminal == Cancelled \cup {"completed"}

\* The place of a status on the lifecycle.  process_admin_price leaves the status
\* alone, so no row is ever at 3 (awaiting the client's confirmation); prepare's
\* 'pending' is an order awaiting payment.
Rank(status) ==
    CASE status = "AwaitingApproval" -> 1
      [] status = "AwaitingPrice" -> 2
      [] status = "AwaitingPayment" -> 4
      [] status = "pending" -> 4
      [] status = "processing" -> 5
      [] status = "completed" -> 6
      [] status = "RejectedByAdmin" -> 7
      [] status = "CancelledByClient" -> 8

\* the row with order_id o before and after a step
SameOrder(r, r2) == r \in orders /\ r2 \in orders' /\ r.order_id = r2.order_id

\* thread w takes a step of its request
HookStep(w) == pc'[w] # pc[w]

\* thread w holds a complete request for a chat order that passed the field checks,
\* the row lookup and the is_paid check
Capturing(w) ==
    /\ req[w].kind = "complete"
    /\ \E r \in Placed : r.merchant_trans_id = req[w].tid

\* C1: in a sequence of webhook calls, once complete was called twice or more for
\* a merchant_trans_id with the prepare id that prepare answered, exactly one
\* fiscal submission was made for it; and a complete that arrives after a
\* submission was made is answered -4, writes no row and submits nothing.
C1_CompleteOnce ==
    [][/\ \A t \in Tids : (Quiet' /\ calls'.matched[t] >= 2) => fiscalCount'[t] = 1
       /\ \A w \in Workers, in \in CompleteRequests :
             (CompleteBegin(w, in) /\ CompleteValidate(in) = 0 /\ fiscalCount[in.tid] >= 1)
             => /\ answer'.kind = "complete" /\ answer'.error = -4
                /\ UNCHANGED <<orders, fiscalCount>>]_vars

\* C2: of the complete requests for a chat order's merchant_trans_id, at most one at a time
\* is past the is_paid check, and at most one fiscal submission is made (every
\* answer 0 of complete follows a submission of its own).
C2_OneCapture ==
    \A r \in Placed :
        /\ Cardinality({w \in Workers : req[w].kind = "complete"
                                         /\ req[w].tid = r.merchant_trans_id}) <= 1
        /\ r.merchant_trans_id # 0 => fiscalCount[r.merchant_trans_id] <= 1

\* C3: a complete for an unpaid chat order whose merchant_prepare_id is not the
\* one prepare answered for the merchant_trans_id is answered -6 at once, and no
\* step of such a request writes is_paid or status.
C3_PrepareIdChecked ==
    [][/\ \A w \in Workers, in \in CompleteRequests :
             (/\ CompleteBegin(w, in) /\ CompleteValidate(in) = 0
              /\ prepIssued[in.tid] # 0 /\ in.prep # prepIssued[in.tid]
              /\ \E r \in Placed : r.merchant_trans_id = in.tid /\ r.is_paid = 0)
             => answer'.kind = "complete" /\ answer'.error = -6 /\ ~InFlight(w)'
       /\ \A w \in Workers :
             (Capturing(w) /\ HookStep(w) /\ req[w].prep # prepIssued[req[w].tid])
             => orders' = orders]_vars

\* C4: a complete for the merchant_trans_id of an unpaid chat order for which no
\* prepare was answered is answered -6 at once, and no step of such a request
\* changes the orders table.
C4_PrepareFirst ==
    [][/\ \A w \in Workers, in \in CompleteRequests :
             (/\ CompleteBegin(w, in) /\ CompleteValidate(in) = 0
              /\ prepIssued[in.tid] = 0
              /\ \E r \in Placed : r.merchant_trans_id = in.tid /\ r.is_paid = 0)
             => answer'.kind = "complete" /\ answer'.error = -6 /\ ~InFlight(w)'
       /\ \A w \in Workers :
             (Capturing(w) /\ HookStep(w) /\ prepIssued[req[w].tid] = 0)
             => orders' = orders]_vars

\* C5: however prepare calls for one merchant_trans_id interleave, every answer
\* carries the merchant_prepare_id answered before for it, and the table holds at
\* most one row for it.
C5_PrepareIdempotent ==
    [][/\ \A t \in Tids : Cardinality(ByTransId(orders', t)) <= 1
       /\ \A w \in Workers :
             (/\ req[w].kind = "prepare" /\ HookStep(w) /\ ~InFlight(w)'
              /\ prepIssued[req[w].tid] # 0)
             => answer'.merchant_prepare_id = prepIssued[req[w].tid]]_vars

\* C6: a prepare that passed the field checks and found no row for its
\* merchant_trans_id is answered -5, and no step of a webhook request changes the
\* number of rows.
C6_PrepareNotFound ==
    [][\A w \in Workers :
          HookStep(w)
          => /\ Cardinality(orders') = Cardinality(orders)
             /\ (pc[w] = "p_insert" /\ ~InFlight(w)')
                => answer'.kind = "prepare" /\ answer'.error = -5]_vars

\* C7: a merchant_trans_id, once stored on an order, is never replaced, however
\* often the client confirms.
C7_TransIdImmutable ==
    [][\A r \in orders, r2 \in orders' :
          (SameOrder(r, r2) /\ r.merchant_trans_id # 0)
          => r2.merchant_trans_id = r.merchant_trans_id]_vars

\* C8: a step that moves a chat order to another place of the lifecycle moves it
\* forward (or into rejected / cancelled), and never out of completed, rejected
\* or cancelled.
C8_StatusForward ==
    [][\A r \in Placed, r2 \in orders' :
          (SameOrder(r, r2) /\ Rank(r2.status) # Rank(r.status))
          => r.status \notin Terminal /\ Rank(r.status) < Rank(r2.status)]_vars

\* C9: no step of a prepare or complete request changes is_paid or status of an
\* order that is cancelled by the client or rejected by the admin.
C9_CancelledStaysUnpaid ==
    [][\A w \in Workers : HookStep(w) =>
          \A r \in orders, r2 \in orders' :
              (SameOrder(r, r2) /\ r.status \in Cancelled)
              => r2.is_paid = r.is_paid /\ r2.status = r.status]_vars

\* the scenario order
ScenarioOrder == ByOrderId(orders, 1)

\* C10: along the scenario (quantity 2, approve, price 50000, confirm, prepare
\* with amount 100000, complete with the merchant_prepare_id prepare answered)
\* prepare is answered 0, and after complete's answer, which is 0, the order's
\* total is 100000, it has a merchant_trans_id, is_paid = 1 and status completed.
C10_HappyPath ==
    /\ path = 6 => answer.kind = "prepare" /\ answer.error = 0
    /\ path = 8 =>
          /\ answer.kind = "complete" /\ answer.error = 0
          /\ \A r \in ScenarioOrder :
                /\ r.admin_price * r.quantity = 100000
                /\ r.merchant_trans_id # 0
                /\ r.is_paid = 1
                /\ r.status = "completed"

\* C11: when the fiscal submission of a complete failed (another status than
\* 200, a timeout, an exception), the request still ends with answer 0 and the
\* chat order carrying its merchant_trans_id is then paid and completed; and no
\* step of a complete request takes is_paid from 1 back to 0.
C11_FiscalFailureKeepsPayment ==
    [][\A w \in Workers :
          /\ (pc[w] = "c_finish" /\ HookStep(w) /\ req[w].fiscal_result # "ok")
             => /\ answer'.kind = "complete" /\ answer'.error = 0
                /\ \A r \in Placed' :
                      r.merchant_trans_id = req[w].tid
                      => r.is_paid = 1 /\ r.status = "completed"
          /\ (req[w].kind = "complete" /\ HookStep(w))
             => \A r \in orders, r2 \in orders' :
                   (SameOrder(r, r2) /\ r.is_paid = 1) => r2.is_paid = 1]_vars

C11_Witness ==
    /\ answer.kind = "complete" /\ answer.error = 0
    /\ answer.fiscal_response \in {"non200", "exception"}
    /\ \E r \in Placed :
          r.merchant_trans_id = answer.tid /\ r.is_paid = 1 /\ r.status = "completed"

\* C12: a prepare or complete request that is well formed but signed with
\* another key than SECRET_KEY is answered -1, and its handling writes no row and
\* makes no outbound call.
C12_BadSignature ==
    [][\A w \in Workers :
          /\ \A in \in PrepareRequests :
                (/\ PrepareBegin(w, in) /\ in.key # SECRET_KEY
                 /\ ParseFloat(in.amount) # -1 /\ in.action = <<"0">>)
                => /\ answer'.kind = "prepare" /\ answer'.error = -1
                   /\ UNCHANGED <<orders, fiscalCount>> /\ ~InFlight(w)'
          /\ \A in \in CompleteRequests :
                (/\ CompleteBegin(w, in) /\ in.key # SECRET_KEY
                 /\ ParseFloat(in.amount) # -1 /\ in.action = <<"1">>)
                => /\ answer'.kind = "complete" /\ answer'.error = -1
                   /\ UNCHANGED <<orders, fiscalCount>> /\ ~InFlight(w)']_vars

\* the order the admin a is pricing
PricedOrder(chat, a) == ByOrderId(orders, fsm[<<chat, a>>].order_id)

\* C13: a price message that is no number above 0, or that arrives when the order
\* being priced is not awaiting its price, changes no row.
C13_SetPriceRejected ==
    [][\A chat \in Chats, a \in Users, text \in PriceTexts :
          (/\ process_admin_price(chat, a, text)
           /\ \/ ~isdigit(text)
              \/ IntOf(text) <= 0
              \/ \E r \in PricedOrder(chat, a) : r.status # "AwaitingPrice")
          => UNCHANGED orders]_vars

\* C14: a price above 0 entered for an order awaiting its price is stored as the
\* order's admin_price, making its total admin_price x quantity, and moves the
\* order to the status that awaits the client's confirmation.
C14_SetPriceAdvances ==
    [][\A chat \in Chats, a \in Users, text \in PriceTexts :
          (/\ process_admin_price(chat, a, text)
           /\ isdigit(text) /\ IntOf(text) > 0
           /\ \E r \in PricedOrder(chat, a) : r.status = "AwaitingPrice")
          => \A r \in PricedOrder(chat, a), r2 \in orders' :
                SameOrder(r, r2)
                => /\ r2.admin_price = IntOf(text)
                   /\ r2.admin_price * r2.quantity = IntOf(text) * r.quantity
                   /\ r2.status = "AwaitingClientConfirmation"]_vars

\* C15: a press of approve or reject by a user who is no admin is answered with
\* the "no rights" alert and changes no row and no admin's dialogue state.
C15_NonAdminForbidden ==
    [][\A chat \in Chats, a \in Users \ ADMIN_CHAT_IDS, o \in OrderIds :
          (approve_order(chat, a, o) \/ reject_order(a, o))
          => answer' = NoRights /\ UNCHANGED <<orders, fsm>>]_vars

C15_Witness ==
    /\ answer = NoRights
    /\ \E r \in Placed : r.status = "AwaitingApproval" /\ r.order_id \in approveButtons

\* C16: the end of the intake dialogue adds exactly one row, the draft's, with
\* status awaiting approval, is_paid 0, no admin_price and no merchant_trans_id.
C16_SubmitCreatesOrder ==
    [][\A u \in Clients, p \in Products, q \in Quantities :
          send_order_to_admin(u, p, q)
          => /\ orders \subseteq orders'
             /\ \E r \in orders' \ orders :
                   /\ orders' \ orders = {r}
                   /\ r.user_id = u /\ r.product = p /\ r.quantity = q
                   /\ r.status = "AwaitingApproval" /\ r.is_paid = 0
                   /\ r.admin_price = -1 /\ r.merchant_trans_id = 0]_vars

C16_Witness ==
    \E r \in Placed :
        /\ r.quantity = 2 /\ r.status = "AwaitingApproval" /\ r.is_paid = 0
        /\ r.admin_price = -1 /\ r.merchant_trans_id = 0

\* C17: every row with a merchant_trans_id has an admin_price.
C17_TransIdNeedsPrice ==
    \A r \in orders : r.merchant_trans_id # 0 => r.admin_price # -1

\* C18: no two rows carry the same merchant_trans_id.
C18_TransIdUnique ==
    \A r1 \in orders, r2 \in orders :
        (r1.merchant_trans_id # 0 /\ r1.merchant_trans_id = r2.merchant_trans_id)
        => r1 = r2

\* C19: a complete request turned away by the field checks writes no row; and
\* when a complete request that passed the is_paid check (so its rows were
\* unpaid and not in processing) is answered -8 or -10, its rows are unpaid and
\* not in processing still.
C19_FailedCompleteWritesNothing ==
    [][\A w \in Workers :
          /\ \A in \in CompleteRequests :
                (CompleteBegin(w, in) /\ CompleteValidate(in) # 0) => UNCHANGED orders
          /\ (/\ req[w].kind = "complete" /\ HookStep(w) /\ ~InFlight(w)'
              /\ answer'.error \in {-8, -10})
             => \A r \in ByTransId(orders', req[w].tid) :
                   r.is_paid = 0 /\ r.status # "processing"]_vars

\* C20: when create_invoice fails for a confirm press on a priced order, the
\* order is awaiting payment afterwards, the press stored no payment_url (an
\* order that had none has none), and the confirm button still works.
C20_InvoiceFailure ==
    [][\A o \in OrderIds :
          (/\ client_accept_order(o, "fail")
           /\ \E r \in ByOrderId(orders, o) : r.admin_price # -1)
          => /\ o \in acceptButtons'
             /\ \A r \in orders, r2 \in orders' :
                   (SameOrder(r, r2) /\ r.order_id = o)
                   => /\ r2.status = "AwaitingPayment"
                      /\ r2.payment_url = r.payment_url
                      /\ r2.admin_price # -1]_vars

C20_Witness ==
    \E r \in Placed :
        /\ r.merchant_trans_id # 0 /\ r.payment_url = "NULL"
        /\ r.status = "AwaitingPayment" /\ r.order_id \in acceptButtons

\* C21: when create_invoice fails for a confirm press on a priced order, the
\* order's status and merchant_trans_id are afterwards what they were before
\* the press.
C21_InvoiceFailureRollsBack ==
    [][\A o \in OrderIds :
          (/\ client_accept_order(o, "fail")
           /\ \E r \in ByOrderId(orders, o) : r.admin_price # -1)
          => \A r \in orders, r2 \in orders' :
                (SameOrder(r, r2) /\ r.order_id = o)
                => /\ r2.status = r.status
                   /\ r2.merchant_trans_id = r.merchant_trans_id]_vars

\* C22: when a complete request is answered 0, exactly one payment notification
\* has been sent for its merchant_trans_id; and no merchant_trans_id ever has more
\* than one.
C22_OneNotification ==
    [][/\ \A w \in Workers :
             (pc[w] = "c_finish" /\ HookStep(w) /\ answer'.error = 0)
             => notifications'[req[w].tid] = 1
       /\ \A t \in Tids : notifications'[t] <= 1]_vars

\* C23: no deleting step of a user who is no admin (the client id or order id
\* sent to the deletion dialogue, the confirmation of "delete all orders") removes
\* a row of clients or of orders.
C23_OnlyAdminsDelete ==
    [][\A u \in Users \ ADMIN_CHAT_IDS :
          (\/ \E text \in IdTexts : process_client_deletion(u, text)
           \/ \E text \in IdTexts : process_order_deletion(u, text)
           \/ db_clear_orders_confirm(u))
          => clients \subseteq clients' /\ orders \subseteq orders']_vars

\* sign_string is the MD5 over the texts the request carries, made with SECRET_KEY
PrepareSignedAsReceived(in) ==
    PrepareSignString(in)
        = md5_hash(PrepareData(in.tid, in.amount, in.action, SECRET_KEY))
CompleteSignedAsReceived(in) ==
    CompleteSignString(in)
        = md5_hash(CompleteData(in.tid, in.prep, in.amount, in.action, SECRET_KEY))

\* C24: a prepare (complete) request with a numeric amount and the right action
\* passes the signature check exactly when its sign_string is the MD5 over the
\* texts it carries, made with SECRET_KEY; so a request signed over the amount
\* text "100000" it carries is not turned away.
C24_SignatureOverReceivedTexts ==
    [][\A w \in Workers :
          /\ \A in \in PrepareRequests :
                (PrepareBegin(w, in) /\ ParseFloat(in.amount) # -1 /\ in.action = <<"0">>)
                => (answer'.error # -8 <=> PrepareSignedAsReceived(in))
          /\ \A in \in CompleteRequests :
                (CompleteBegin(w, in) /\ ParseFloat(in.amount) # -1 /\ in.action = <<"1">>)
                => (answer'.error # -8 <=> CompleteSignedAsReceived(in))]_vars

\* a step of a prepare request: its field checks and first statement, or a later one
PrepareWorks(w) ==
    \/ HookStep(w) /\ (req[w].kind = "prepare" \/ req'[w].kind = "prepare")
    \/ ~InFlight(w) /\ ~InFlight(w)' /\ answer'.kind = "prepare"

\* C25: no step of a prepare request removes a row or changes the is_paid of a
\* row, be it 0 or 1.
C25_PrepareKeepsPaid ==
    [][\A w \in Workers :
          PrepareWorks(w)
          => \A r \in orders : \E r2 \in orders' :
                r2.order_id = r.order_id /\ r2.is_paid = r.is_paid]_vars

\* prepare has just answered for an order that was paid before it
C25_Witness ==
    /\ answer.kind = "prepare" /\ answer.error = 0
    /\ \E r \in Placed :
          r.merchant_trans_id = answer.tid /\ r.is_paid = 1 /\ r.status = "pending"

\* C26: the fiscal item a complete request builds has Price = GoodPrice x Amount
\* with GoodPrice 100 times the admin_price of the order, and Price is 100 times
\* the amount of the invoice created for the merchant_trans_id.
C26_FiscalTotal ==
    [][\A w \in Workers :
          (pc[w] = "c_read" /\ pc'[w] = "c_fiscal")
          => LET item == req'[w].fiscal_item
             IN /\ item.Price = item.GoodPrice * item.Amount
                /\ \A r \in ByTransId(orders, req[w].tid) :
                      item.GoodPrice = 100 * r.admin_price /\ item.Amount = r.quantity
                /\ item.Price = 100 * invoiced[req[w].tid]]_vars

\* C27: the VAT of the fiscal item a complete request builds is the integer
\* nearest to Price x 12 / 112 (at most 1/2 away from it); for Price 112000 it
\* is 12000.
C27_FiscalVat ==
    [][\A w \in Workers :
          (pc[w] = "c_read" /\ pc'[w] = "c_fiscal")
          => LET item == req'[w].fiscal_item
                 diff == 112 * item.VAT - 12 * item.Price
             IN /\ 2 * diff <= 112 /\ 2 * (0 - diff) <= 112
                /\ item.Price = 112000 => item.VAT = 12000]_vars

\* complete has answered with a fiscal item of Price 112000 and VAT 12000
C27_Witness ==
    /\ answer.kind = "complete" /\ answer.error = 0
    /\ answer.fiscal_items.Price = 112000 /\ answer.fiscal_items.VAT = 12000

\* C28: an admin's press of approve on an order that is not awaiting approval
\* leaves the order's status as it is.
C28_ApproveOnlyAwaitingApproval ==
    [][\A chat \in Chats, a \in ADMIN_CHAT_IDS, o \in OrderIds :
          approve_order(chat, a, o)
          => \A r \in orders, r2 \in orders' :
                (SameOrder(r, r2) /\ r.order_id = o /\ r.status # "AwaitingApproval")
                => r2.status = r.status]_vars

\* an invoice was created before for the order with order_id o
Invoiced(o) ==
    \E r \in ByOrderId(orders, o) :
        r.merchant_trans_id # 0 /\ invoiced[r.merchant_trans_id] # 0

\* C29: a confirm press on an order for which an invoice was created creates no
\* second one, and a confirm press on an order that is awaiting payment or
\* further on sends no create_invoice request (draws no merchant_trans_id).
C29_OneInvoice ==
    [][\A o \in OrderIds, invoice \in {"url", "fail"} :
          client_accept_order(o, invoice)
          => /\ Invoiced(o) => invoiced' = invoiced
             /\ (\E r \in ByOrderId(orders, o) :
                    r.status \in {"AwaitingPayment", "pending", "processing", "completed"})
                => nextUuid' = nextUuid]_vars

\* C30: the end of the intake dialogue puts the order_id of the row it has just
\* inserted on the admins' approve/reject keyboard, whatever other orders the
\* client has.
C30_SubmitLabelsNewOrder ==
    [][\A u \in Clients, p \in Products, q \in Quantities :
          send_order_to_admin(u, p, q)
          => approveButtons' = approveButtons \cup {nextOrderId}]_vars

\* the order with order_id o is paid / is completed
Paid(o) == \E r \in ByOrderId(orders, o) : r.is_paid = 1
Completed(o) == \E r \in ByOrderId(orders, o) : r.status = "completed"

\* C31: with every request thread running on and the gateway retrying, an
\* order that complete has marked paid is completed at some later time.
C31_PaidOrderCompletes ==
    \A o \in OrderIds : Paid(o) ~> Completed(o)

\* the amount create_invoice was sent for the transaction of row r
TotalInvoiced(r) == invoiced[r.merchant_trans_id]

\* C32: a prepare that sets a chat order pending and a complete that marks it
\* paid carry the amount that was invoiced for the order.
C32_AmountIsTotal ==
    [][\A w \in Workers, r \in Placed :
          /\ (\E in \in PrepareRequests :
                 PrepareBegin(w, in) /\ PrepareValidate(in) = 0
                 /\ in.tid = r.merchant_trans_id /\ TotalInvoiced(r) # 0)
             => req'[w].amount = TotalInvoiced(r)
          /\ (CompleteMark(w) /\ r.merchant_trans_id = req[w].tid
              /\ r.is_paid = 0 /\ TotalInvoiced(r) # 0)
             => req[w].amount = TotalInvoiced(r)]_vars

\* C33: every row whose status is 'completed' is paid and carries a
\* merchant_trans_id.
C33_CompletedIsPaid ==
    \A r \in orders :
        r.status = "completed" => r.is_paid = 1 /\ r.merchant_trans_id # 0

\* C34: no step, of the chat or of the webhook, takes a row that stays in the
\* table from is_paid = 1 to another value.
C34_PaidStaysPaid ==
    [][\A r \in orders, r2 \in orders' :
          (SameOrder(r, r2) /\ r.is_paid = 1) => r2.is_paid = 1]_vars

\* the client has cancelled an order that was paid
C34_Witness ==
    \E r \in Placed : r.is_paid = 1 /\ r.status = "CancelledByClient"

\* C35: a price that an admin writes is stored as the admin_price of the order
\* that admin approved last, which is in the table, and the admin_price of every
\* other order stays as it is.
C35_PriceGoesToLastApproved ==
    [][\A chat \in AdminChats, a \in ADMIN_CHAT_IDS, text \in PriceTexts :
          (process_admin_price(chat, a, text) /\ isdigit(text))
          => /\ ByOrderId(orders, lastApproved[a]) # {}
             /\ \A r \in orders, r2 \in orders' :
                   SameOrder(r, r2)
                   => r2.admin_price = IF r.order_id = lastApproved[a]
                                       THEN IntOf(text) ELSE r.admin_price]_vars

====
